---- MODULE Spec2Model ----
(***************************************************************************)
(* Model of the credential validation / refresh cycle of AuthHelper        *)
(* (src/authHelper.py) as driven by CynanBot (src/cynanBot.py), of the     *)
(* construction of AuthHelper, and of WeatherRepository.fetchWeather with  *)
(* its time-bounded cache (src/weatherRepository.py).  Each of the three   *)
(* has its own specification; the variables of the other two stay put.     *)
(*                                                                         *)
(* One call of validateAndRefreshAccessTokens is a cycle.  The cycle is    *)
(* cut at its two blocking upstream calls (requests.get on the validate    *)
(* endpoint, requests.post on the token endpoint): the response of each    *)
(* call is an input drawn from the responses the upstream can give.        *)
(***************************************************************************)
EXTENDS Integers, Sequences, FiniteSets, TLC

(* ------------------------------ bounds --------------------------------- *)
MaxUsers == 3        \* longest list of users the bot is configured with
MaxCycles == 2       \* number of cycles started in one behaviour
MaxTicks == 3        \* steps the clock makes in one behaviour
MaxClockTicks == 2   \* steps the chat clock makes in one behaviour
MaxChatEvents == 2   \* chat messages handled in one behaviour
MaxFetches == 2      \* fetchWeather calls started in one behaviour

(* ------------------------------ values --------------------------------- *)
Handles == {"A", "B", "C"}

None == "<None>"             \* Python's None
JsonNull == "<null>"         \* a JSON null field value (json.loads gives None)

InitialAccess == "a0"
InitialRefresh == "r0"
NewAccess == {"a1", "a2"}    \* access tokens a token exchange can hand out
NewRefresh == {"r1"}         \* refresh tokens a token exchange can hand out

NoTokens == [access |-> None, refresh |-> None]
InitialPair == [access |-> InitialAccess, refresh |-> InitialRefresh]

UserLists == UNION {[1..n -> Handles] : n \in 0..MaxUsers}

(* A JSON object is a function from the keys it has to their values.       *)
JsonObjects(keys, vals) == UNION {[ks -> vals] : ks \in SUBSET keys}

(* What requests.get / requests.post followed by json.loads can produce:   *)
(* the call raises (no connection, timeout), the body is not JSON, or the  *)
(* body is a JSON object.  The status code is never read by the code.      *)
TransportError == [kind |-> "transport", body |-> << >>]
NotJson == [kind |-> "notjson", body |-> << >>]
JsonResponse(obj) == [kind |-> "json", body |-> obj]
NoResponse == [kind |-> "none", body |-> << >>]

ValidateResponses ==
    {TransportError, NotJson} \cup
    {JsonResponse(o) : o \in JsonObjects({"client_id"}, {"", "cid", JsonNull})}

ExchangeResponses ==
    {TransportError, NotJson} \cup
    {JsonResponse(o) : o \in
        {[access_token |-> a, refresh_token |-> r] :
            a \in NewAccess \cup {"", JsonNull}, r \in NewRefresh \cup {"", JsonNull}}
        \cup {[access_token |-> a] : a \in NewAccess \cup {"", JsonNull}}
        \cup {[refresh_token |-> r] : r \in NewRefresh \cup {"", JsonNull}}
        \cup {<< >>}}

AllZero == [i \in 1..MaxUsers |-> 0]
AllPending == [i \in 1..MaxUsers |-> "pending"]

(* ------------------------------ state ---------------------------------- *)
VARIABLES
    tokens,         \* the Token Store: handle -> [access, refresh]
    pc,             \* "idle", "loop", "validate" (get in flight), "refresh" (post in flight)
    repo,           \* the userTokensRepository argument: "store" or None
    users,          \* the users argument: what usersRepository.getUsers() returns
    idx,            \* position of the for-loop in users
    refreshToken,   \* refresh_token parameter of the token exchange in flight
    resp,           \* last upstream response received
    result,         \* how the last cycle ended: "none", "returned" or the exception raised
    outcome,        \* per position of users: what the cycle did with it
    validateCalls,  \* per position: validate calls issued in this cycle
    exchangeCalls,  \* per position: token-exchange calls issued in this cycle
    cycles,         \* cycles started so far
    issued,         \* history: per handle, the pair of its last well-formed
                    \* token-exchange response, None before the first one
    silent          \* the upstream of the call in flight never answers

authVars == <<tokens, pc, repo, users, idx, refreshToken, resp, result, outcome,
          validateCalls, exchangeCalls, cycles, issued, silent>>

(* ---------------------- state: AuthHelper.__init__ --------------------- *)
VARIABLES
    authFile,       \* the authFile argument
    fileState,      \* the file of that name: "missing", "unreadable" or "ok"
    fileJson,       \* what json.load gives for the file
    helper,         \* the AuthHelper the caller holds, NoHelper while there is none
    ctorResult      \* "none" before the call, "constructed" or the exception raised

ctorVars == <<authFile, fileState, fileJson, helper, ctorResult>>

(* ---------------------- state: WeatherRepository ------------------------ *)
VARIABLES
    now,            \* the clock, in minutes
    ticks,          \* steps the clock has made
    iqAirApiKey,    \* the iqAirApiKey the repository was built with
    cache,          \* self.__cache: the entries of the TimedDict
    wpc,            \* per caller: "idle", "weather" (get in flight), "air" (get in flight)
    wloc,           \* per caller: the location id of the running / last call
    wparsed,        \* per caller: the fields read from the weather response
    wresult,        \* per caller: what the last call returned or raised
    wcalls,         \* per caller: upstream calls the running / last call issued
    fetches,        \* fetchWeather calls started so far
    wretry          \* history, per caller: the running call started after a call
                    \* for the same location id had returned absent

weatherVars == <<now, ticks, iqAirApiKey, cache, wpc, wloc, wparsed, wresult, wcalls,
                 fetches, wretry>>

(* CynanBot.event_raw_pubsub *)
VARIABLES
    handled         \* what the last pub-sub event led to

botVars == <<handled>>

(* CynanBot's chat handlers *)
VARIABLES
    clock,          \* datetime.now(), in seconds
    clockTicks,     \* steps the clock has made
    chatEvents,     \* chat messages handled so far
    lastAnalogueStockMessageTimes,  \* per handle: a time, or None for no key
    lastCynanMessageTime,
    lastDeerForceMessageTimes,      \* per handle: a time, or None for no key
    lastWotdMessageTimes,           \* per handle: a time, or None for no key
    sent            \* the channel of the last handled chat message and what
                    \* the bot sent there ("nothing", or "..._cooldown" for a
                    \* trigger ignored inside its cooldown: nothing is sent)

chatVars == <<clock, clockTicks, chatEvents, lastAnalogueStockMessageTimes,
              lastCynanMessageTime, lastDeerForceMessageTimes, lastWotdMessageTimes, sent>>

vars == <<authVars, ctorVars, weatherVars, botVars, chatVars>>

(* ------------------- values: AuthHelper.__init__ ------------------------ *)
(* A Python value read from the arguments or from the auth file: a string  *)
(* (its characters), None (also what a JSON null loads as) or a number.    *)
Str(chars) == [type |-> "str", chars |-> chars]
PyNone == [type |-> "None", chars |-> << >>]
PyNumber == [type |-> "number", chars |-> << >>]

WhitespaceChars == {" ", "\t", "\n"}
ConfigStrings == {<< >>, <<" ">>, <<" ", "\t">>, <<"x">>, <<" ", "x">>}
ConfigValues == {Str(c) : c \in ConfigStrings} \cup {PyNone, PyNumber}
ConfigKeys == {"clientId", "clientSecret", "ircAuthToken"}

AuthFileArgs == {PyNone, Str(<< >>), Str(<<" ">>), Str(<<"f">>)}
AuthFileContents ==
    {[kind |-> "notjson", body |-> << >>], [kind |-> "null", body |-> << >>]}
    \cup {[kind |-> "json", body |-> o] : o \in JsonObjects(ConfigKeys, ConfigValues)}

NoHelper == [clientId |-> PyNone, clientSecret |-> PyNone, ircAuthToken |-> PyNone]

(* The variables of AuthHelper.__init__ while no construction is modelled. *)
(* The pub-sub handler before any event.                                   *)
BotIdle == handled = "none"

NoTime == [set |-> FALSE, at |-> 0]     \* no key in a dict of times
Time(t) == [set |-> TRUE, at |-> t]
Channels == {"A", "B"}

(* Lines 50-53: the timers after construction, at time 0.                  *)
ChatIdle ==
    /\ clock = 0
    /\ clockTicks = 0
    /\ chatEvents = 0
    /\ lastAnalogueStockMessageTimes = [c \in Channels |-> NoTime]
    /\ lastCynanMessageTime = 0 - 24 * 60 * 60
    /\ lastDeerForceMessageTimes = [c \in Channels |-> NoTime]
    /\ lastWotdMessageTimes = [c \in Channels |-> NoTime]
    /\ sent = [channel |-> "none", text |-> "nothing"]

CtorIdle ==
    /\ authFile = PyNone
    /\ fileState = "missing"
    /\ fileJson = [kind |-> "null", body |-> << >>]
    /\ helper = NoHelper
    /\ ctorResult = "none"

(* --------------------- values: WeatherRepository ------------------------ *)
Workers == {"w1", "w2"}          \* the callers of fetchWeather
LocationIds == {"loc1", "loc2"}

(* A number of a JSON body in tenths, a JSON null, or a NaN.               *)
Num(t) == [type |-> "num", tenths |-> t]
NullNum == [type |-> "null", tenths |-> 0]
NaNNum == [type |-> "nan", tenths |-> 0]
NoNum == [type |-> "None", tenths |-> 0]     \* Python's None where a number goes

NoParsed == [humidity |-> NoNum, pressure |-> NoNum, temperature |-> NoNum,
             tomorrowsHighTemperature |-> NoNum, tomorrowsLowTemperature |-> NoNum]
NoReport == [airQuality |-> NoNum, humidity |-> NoNum, pressure |-> NoNum,
             temperature |-> NoNum, tomorrowsHighTemperature |-> NoNum,
             tomorrowsLowTemperature |-> NoNum]

(* What a call of fetchWeather gave its caller.                            *)
NoResult == [kind |-> "none", report |-> NoReport, exception |-> "none"]
Returned(report) == [kind |-> "report", report |-> report, exception |-> "none"]
Absent == [kind |-> "absent", report |-> NoReport, exception |-> "none"]
Raised(exception) == [kind |-> "raised", report |-> NoReport, exception |-> exception]

NoCalls == [weather |-> 0, air |-> 0]

(* The variables of WeatherRepository while no fetch is modelled.          *)
WeatherIdle ==
    /\ now = 0
    /\ ticks = 0
    /\ iqAirApiKey = None
    /\ cache = {}
    /\ wpc = [w \in Workers |-> "idle"]
    /\ wloc = [w \in Workers |-> None]
    /\ wparsed = [w \in Workers |-> NoParsed]
    /\ wresult = [w \in Workers |-> NoResult]
    /\ wcalls = [w \in Workers |-> NoCalls]
    /\ wretry = [w \in Workers |-> FALSE]
    /\ fetches = 0

(* --------------------------- Token Store ------------------------------- *)
getAccessToken(store, handle) == store[handle].access
getRefreshToken(store, handle) == store[handle].refresh
setTokens(store, handle, accessToken, refreshToken_) ==
    [store EXCEPT ![handle] = [access |-> accessToken, refresh |-> refreshToken_]]


(* ------------------------ AuthHelper: helpers --------------------------- *)
(* The test  'key' not in json or len(json['key']) == 0  of lines 95, 97    *)
(* and 138: "missing" when it holds, "TypeError" when len() is applied to   *)
(* None (a null field), "ok" otherwise.                                     *)
CheckField(json, key) ==
    IF key \notin DOMAIN json THEN "missing"
    ELSE IF json[key] = JsonNull THEN "TypeError"
    ELSE IF Len(json[key]) = 0 THEN "missing"
    ELSE "ok"

(* Lines 95-98 of __refreshAccessToken: the exception the checks of the    *)
(* token-exchange response raise, or "ok".                                 *)
RefreshError(json) ==
    IF CheckField(json, "access_token") = "missing" THEN "ValueError"
    ELSE IF CheckField(json, "access_token") = "TypeError" THEN "TypeError"
    ELSE IF CheckField(json, "refresh_token") = "missing" THEN "ValueError"
    ELSE IF CheckField(json, "refresh_token") = "TypeError" THEN "TypeError"
    ELSE "ok"

(* Mutant of TokensAfterRefresh: the access token is stored as soon as it  *)
(* has passed its own check, before refresh_token is looked at.            *)
TokensAfterRefresh_PartialWrite(store, handle, json) ==
    IF CheckField(json, "access_token") # "ok" THEN store
    ELSE IF CheckField(json, "refresh_token") # "ok"
         THEN setTokens(store, handle, json["access_token"], getRefreshToken(store, handle))
         ELSE setTokens(store, handle, json["access_token"], json["refresh_token"])

(* Mutant of TokensAfterRefresh: a well-formed response replaces the       *)
(* access token only and keeps the stored refresh token.                   *)
TokensAfterRefresh_AccessOnly(store, handle, json) ==
    IF CheckField(json, "access_token") = "ok" /\ CheckField(json, "refresh_token") = "ok"
    THEN setTokens(store, handle, json["access_token"], getRefreshToken(store, handle))
    ELSE store

(* Mutant of TokensAfterRefresh: a well-formed response is stored for      *)
(* every handle of the Token Store.                                        *)
TokensAfterRefresh_AllHandles(store, handle, json) ==
    IF RefreshError(json) = "ok"
    THEN [h \in DOMAIN store |->
            [access |-> json["access_token"], refresh |-> json["refresh_token"]]]
    ELSE store

(* Lines 93-104: the Token Store after the token-exchange response json    *)
(* has been handled for handle.                                            *)
TokensAfterRefresh(store, handle, json) ==
    IF RefreshError(json) = "ok"
    THEN setTokens(store, handle, json["access_token"], json["refresh_token"])
    ELSE store

(* Mutant of ValidateVerdict: every validate response leads to a refresh.  *)
ValidateVerdict_AlwaysRefresh(json) == "refresh"

(* Mutant of ValidateVerdict: only a missing client_id leads to a refresh, *)
(* an empty one is taken as valid.                                         *)
ValidateVerdict_MissingOnly(json) ==
    IF "client_id" \notin DOMAIN json THEN "refresh"
    ELSE IF json["client_id"] = JsonNull THEN "TypeError"
    ELSE "valid"

(* Line 138: what the cycle does with a validate response body:            *)
(* "refresh", "TypeError" (len of a null client_id) or "valid".            *)
ValidateVerdict(json) ==
    IF CheckField(json, "client_id") = "missing" THEN "refresh"
    ELSE IF CheckField(json, "client_id") = "TypeError" THEN "TypeError"
    ELSE "valid"

(* Mutant of StartVerdict: an empty list is rejected like a missing        *)
(* repository.                                                             *)
StartVerdict_EmptyIsError(us, repository) ==
    IF repository = None \/ Len(us) = 0 THEN "ValueError" ELSE "loop"

(* Lines 111-116: how the call starts: the exception raised, "returned"    *)
(* for an empty list, "loop" when the for-loop is entered.                 *)
StartVerdict(us, repository) ==
    IF repository = None THEN "ValueError"
    ELSE IF Len(us) = 0 THEN "returned"
    ELSE "loop"

(* Mutant of SkipsUser: the None test is left out.                         *)
SkipsUser_Never(accessToken) == FALSE

(* Lines 124-125: whether the loop skips a user with this access token.    *)
SkipsUser(accessToken) == accessToken = None

(* An exception leaves validateAndRefreshAccessTokens: nothing in the      *)
(* loop, nor in CynanBot.__validateAndRefreshTokens, catches it.           *)
Raise(exception, what) ==
    /\ pc' = "idle"
    /\ silent' = FALSE
    /\ result' = exception
    /\ outcome' = [outcome EXCEPT ![idx] = what]
    /\ UNCHANGED <<repo, users, idx, refreshToken, validateCalls,
                   exchangeCalls, cycles>>

(* The loop body is done for this user: the for-loop takes the next one.   *)
NextUser(what) ==
    /\ pc' = "loop"
    /\ silent' = FALSE
    /\ idx' = idx + 1
    /\ outcome' = [outcome EXCEPT ![idx] = what]
    /\ UNCHANGED <<repo, users, refreshToken, result, validateCalls,
                   exchangeCalls, cycles>>

(* Lines 79-91 of __refreshAccessToken: read the refresh token and post    *)
(* the token exchange.                                                     *)
SendExchange ==
    /\ pc' = "refresh"
    /\ silent' \in BOOLEAN
    /\ refreshToken' = getRefreshToken(tokens, users[idx])
    /\ exchangeCalls' = [exchangeCalls EXCEPT ![idx] = @ + 1]
    /\ UNCHANGED <<tokens, repo, users, idx, result, outcome, validateCalls, cycles, issued>>

(* Mutant of RefreshFailed: a malformed token-exchange response is         *)
(* answered by posting the token exchange again.                           *)
RefreshFailed_Retry(exception) ==
    /\ pc' = "refresh"
    /\ silent' \in BOOLEAN
    /\ exchangeCalls' = [exchangeCalls EXCEPT ![idx] = @ + 1]
    /\ UNCHANGED <<repo, users, idx, refreshToken, result, outcome, validateCalls, cycles>>

(* Lines 95-98: the raise of a malformed token-exchange response; it       *)
(* leaves __refreshAccessToken and the loop.                               *)
RefreshFailed(exception) == Raise(exception, "refresh_failed")

(* The timeout argument of requests.get (lines 131-134) and requests.post  *)
(* (lines 88-91): none is passed, so requests waits without limit.         *)
AuthRequestTimeout == None

(* The call in flight can come back with r: an upstream that answers gives *)
(* any response; one that never answers gives only the Timeout that a      *)
(* timeout argument makes requests raise.                                  *)
Answers(r) == silent => (AuthRequestTimeout # None /\ r.kind = "transport")

(* ------------------------ AuthHelper: actions --------------------------- *)
Init ==
    /\ tokens \in [Handles -> {NoTokens, InitialPair}]
    /\ pc = "idle"
    /\ repo = "store"
    /\ users \in UserLists
    /\ idx = 1
    /\ refreshToken = None
    /\ resp = NoResponse
    /\ result = "none"
    /\ outcome = AllPending
    /\ validateCalls = AllZero
    /\ exchangeCalls = AllZero
    /\ cycles = 0
    /\ issued = [h \in Handles |-> NoTokens]
    /\ silent = FALSE
    /\ CtorIdle
    /\ WeatherIdle
    /\ BotIdle
    /\ ChatIdle

(* CynanBot.__validateAndRefreshTokens (src/cynanBot.py lines 189-197)     *)
(* calls validateAndRefreshAccessTokens with the configured users (lines   *)
(* 106-118).                                                               *)
BeginCycle(repository) ==
    /\ pc = "idle"
    /\ cycles < MaxCycles
    /\ cycles' = cycles + 1
    /\ repo' = repository
    /\ idx' = 1
    /\ refreshToken' = None
    /\ resp' = NoResponse
    /\ outcome' = AllPending
    /\ validateCalls' = AllZero
    /\ exchangeCalls' = AllZero
    /\ pc' = IF StartVerdict(users, repository) = "loop" THEN "loop" ELSE "idle"
    /\ result' = IF StartVerdict(users, repository) = "loop" THEN "none"
                 ELSE StartVerdict(users, repository)
    /\ UNCHANGED <<tokens, users, issued, silent>>

(* A cycle is started while nothing else of the bot is modelled.           *)
StartCycle(repository) ==
    /\ BeginCycle(repository)
    /\ UNCHANGED <<ctorVars, weatherVars, botVars, chatVars>>

(* The for-loop is exhausted: the call returns (line 120).                 *)
EndCycle ==
    /\ pc = "loop"
    /\ idx > Len(users)
    /\ pc' = "idle"
    /\ result' = "returned"
    /\ UNCHANGED <<tokens, repo, users, idx, refreshToken, resp, outcome,
                   validateCalls, exchangeCalls, cycles, issued, silent>>
    /\ UNCHANGED <<ctorVars, weatherVars, botVars, chatVars>>

(* Lines 120-125: a user without an access token on record is skipped.     *)
SkipUser ==
    /\ pc = "loop"
    /\ idx <= Len(users)
    /\ SkipsUser(getAccessToken(tokens, users[idx]))
    /\ NextUser("skipped")
    /\ UNCHANGED <<tokens, resp, issued>>
    /\ UNCHANGED <<ctorVars, weatherVars, botVars, chatVars>>

(* Lines 120-134: the validate call is issued for the user's access token. *)
SendValidate ==
    /\ pc = "loop"
    /\ idx <= Len(users)
    /\ ~SkipsUser(getAccessToken(tokens, users[idx]))
    /\ pc' = "validate"
    /\ silent' \in BOOLEAN
    /\ validateCalls' = [validateCalls EXCEPT ![idx] = @ + 1]
    /\ UNCHANGED <<tokens, repo, users, idx, refreshToken, resp, result, outcome,
                   exchangeCalls, cycles, issued>>
    /\ UNCHANGED <<ctorVars, weatherVars, botVars, chatVars>>

(* Lines 131-144: the validate call comes back with r.                     *)
ValidateResponse(r) ==
    /\ pc = "validate"
    /\ Answers(r)
    /\ resp' = r
    /\ IF r.kind = "transport" THEN
            Raise("ConnectionError", "validate_failed") /\ UNCHANGED <<tokens, issued>>
       ELSE IF r.kind = "notjson" THEN
            Raise("JSONDecodeError", "validate_failed") /\ UNCHANGED <<tokens, issued>>
       ELSE IF ValidateVerdict(r.body) = "TypeError" THEN
            Raise("TypeError", "validate_failed") /\ UNCHANGED <<tokens, issued>>
       ELSE IF ValidateVerdict(r.body) = "refresh" THEN SendExchange
       ELSE NextUser("valid") /\ UNCHANGED <<tokens, issued>>
    /\ UNCHANGED <<ctorVars, weatherVars, botVars, chatVars>>

(* Lines 88-104: the token exchange comes back with r.                     *)
ExchangeResponse(r) ==
    /\ pc = "refresh"
    /\ Answers(r)
    /\ resp' = r
    /\ IF r.kind = "transport" THEN
            Raise("ConnectionError", "refresh_failed") /\ UNCHANGED <<tokens, issued>>
       ELSE IF r.kind = "notjson" THEN
            Raise("JSONDecodeError", "refresh_failed") /\ UNCHANGED <<tokens, issued>>
       ELSE IF RefreshError(r.body) # "ok" THEN
            /\ tokens' = TokensAfterRefresh(tokens, users[idx], r.body)
            /\ RefreshFailed(RefreshError(r.body))
            /\ UNCHANGED issued
       ELSE /\ tokens' = TokensAfterRefresh(tokens, users[idx], r.body)
            /\ issued' = [issued EXCEPT ![users[idx]] =
                            [access |-> r.body["access_token"],
                             refresh |-> r.body["refresh_token"]]]
            /\ NextUser("refreshed")
    /\ UNCHANGED <<ctorVars, weatherVars, botVars, chatVars>>

Next ==
    \/ \E repository \in {"store", None} : StartCycle(repository)
    \/ EndCycle
    \/ SkipUser
    \/ SendValidate
    \/ \E r \in ValidateResponses : ValidateResponse(r)
    \/ \E r \in ExchangeResponses : ExchangeResponse(r)

Spec == Init /\ [][Next]_vars

(* The cycle under a scheduler that keeps starting cycles with the Token   *)
(* Store (src/cynanBot.py lines 189-197), code that takes its next step,   *)
(* and upstreams whose answers arrive.                                     *)
FairSpec ==
    /\ Spec
    /\ WF_vars(StartCycle("store"))
    /\ WF_vars(EndCycle)
    /\ WF_vars(SkipUser)
    /\ WF_vars(SendValidate)
    /\ WF_vars(\E r \in ValidateResponses : ValidateResponse(r))
    /\ WF_vars(\E r \in ExchangeResponses : ExchangeResponse(r))

(* The variables of the refresh cycle while no cycle is modelled.          *)
AuthIdle ==
    /\ tokens = [h \in Handles |-> NoTokens]
    /\ pc = "idle"
    /\ repo = "store"
    /\ users = << >>
    /\ idx = 1
    /\ refreshToken = None
    /\ resp = NoResponse
    /\ result = "none"
    /\ outcome = AllPending
    /\ validateCalls = AllZero
    /\ exchangeCalls = AllZero
    /\ cycles = 0
    /\ issued = [h \in Handles |-> NoTokens]
    /\ silent = FALSE

(* ------------------------ AuthHelper.__init__ --------------------------- *)
(* str.isspace(): at least one character and all of them whitespace.       *)
IsSpace(chars) == Len(chars) > 0 /\ \A i \in 1..Len(chars) : chars[i] \in WhitespaceChars

(* Mutant of MalformedStr: the isspace() test is left out.                 *)
MalformedStr_NoSpaceTest(v) ==
    IF v.type = "None" THEN "malformed"
    ELSE IF v.type = "number" THEN "TypeError"
    ELSE IF Len(v.chars) = 0 THEN "malformed"
    ELSE "ok"

(* The test  v == None or len(v) == 0 or v.isspace()  of lines 17, 42, 44  *)
(* and 46: "malformed" when it holds, "TypeError" when len() is applied to *)
(* a number, "ok" otherwise.                                               *)
MalformedStr(v) ==
    IF v.type = "None" THEN "malformed"
    ELSE IF v.type = "number" THEN "TypeError"
    ELSE IF Len(v.chars) = 0 THEN "malformed"
    ELSE IF IsSpace(v.chars) THEN "malformed"
    ELSE "ok"

(* __readJson (lines 62-72): the exception it raises, or "ok".             *)
ReadJsonError(state, content) ==
    IF state = "missing" THEN "FileNotFoundError"
    ELSE IF state = "unreadable" THEN "PermissionError"
    ELSE IF content.kind = "notjson" THEN "JSONDecodeError"
    ELSE IF content.kind = "null" THEN "IOError"
    ELSE "ok"

(* Lines 42-47: the exception the elif chain over the three values raises, *)
(* or "ok".                                                                *)
SecretsError(json) ==
    IF MalformedStr(json["clientId"]) = "malformed" THEN "ValueError"
    ELSE IF MalformedStr(json["clientId"]) = "TypeError" THEN "TypeError"
    ELSE IF MalformedStr(json["clientSecret"]) = "malformed" THEN "ValueError"
    ELSE IF MalformedStr(json["clientSecret"]) = "TypeError" THEN "TypeError"
    ELSE IF MalformedStr(json["ircAuthToken"]) = "malformed" THEN "ValueError"
    ELSE IF MalformedStr(json["ircAuthToken"]) = "TypeError" THEN "TypeError"
    ELSE "ok"

(* Lines 17-47: the exception __init__ raises, or "ok".                    *)
ConstructError(file, state, content) ==
    IF MalformedStr(file) # "ok" THEN "ValueError"
    ELSE IF ReadJsonError(state, content) # "ok" THEN ReadJsonError(state, content)
    ELSE IF "clientId" \notin DOMAIN content.body THEN "ValueError"
    ELSE IF "clientSecret" \notin DOMAIN content.body THEN "ValueError"
    ELSE IF "ircAuthToken" \notin DOMAIN content.body THEN "ValueError"
    ELSE SecretsError(content.body)

(* Lines 49-51: the three private fields of the constructed helper.        *)
NewHelper(json) ==
    [clientId |-> json["clientId"], clientSecret |-> json["clientSecret"],
     ircAuthToken |-> json["ircAuthToken"]]

CtorInit ==
    /\ authFile \in AuthFileArgs
    /\ fileState \in {"missing", "unreadable", "ok"}
    /\ fileJson \in AuthFileContents
    /\ helper = NoHelper
    /\ ctorResult = "none"
    /\ AuthIdle
    /\ WeatherIdle
    /\ BotIdle
    /\ ChatIdle

(* AuthHelper(authFile): an exception leaves the caller without a helper.  *)
Construct ==
    /\ ctorResult = "none"
    /\ ctorResult' = IF ConstructError(authFile, fileState, fileJson) = "ok"
                     THEN "constructed"
                     ELSE ConstructError(authFile, fileState, fileJson)
    /\ helper' = IF ConstructError(authFile, fileState, fileJson) = "ok"
                 THEN NewHelper(fileJson.body)
                 ELSE NoHelper
    /\ UNCHANGED <<authFile, fileState, fileJson, authVars, weatherVars, botVars, chatVars>>

CtorNext == Construct

CtorSpec == CtorInit /\ [][CtorNext]_vars

(* --------------------- CynanBot.event_raw_pubsub ------------------------ *)
Missing == "<missing>"      \* the key is not in the JSON object

EventKeys(error, type, message) ==
    {k \in {"error", "type", "message"} :
        \/ k = "error" /\ error # Missing
        \/ k = "type" /\ type # Missing
        \/ k = "message" /\ message # Missing}

(* A pub-sub event; message stands for the type inside data.message, or    *)
(* "<notjson>" when data.message is not JSON.                              *)
PubSubEvent(error, type, message) ==
    [k \in EventKeys(error, type, message) |->
        IF k = "error" THEN error ELSE IF k = "type" THEN type ELSE message]

PubSubEvents ==
    {PubSubEvent(e, t, m) :
        e \in {Missing, "", "ERR_BADAUTH", "ERR_BADMESSAGE", JsonNull},
        t \in {Missing, "PONG", "RESPONSE", "MESSAGE", "RECONNECT"},
        m \in {Missing, "reward-redeemed", "other", "<notjson>"}}

(* Mutant of PubSubVerdict: every non-empty error starts a cycle.          *)
PubSubVerdict_AnyErrorRefreshes(data) ==
    IF "error" \in DOMAIN data /\ data["error"] = JsonNull THEN "TypeError"
    ELSE IF "error" \in DOMAIN data /\ Len(data["error"]) >= 1 THEN "cycle"
    ELSE IF "type" \notin DOMAIN data THEN "no_type"
    ELSE IF data["type"] \in {"PONG", "RESPONSE"} THEN "general"
    ELSE IF data["type"] # "MESSAGE" \/ "message" \notin DOMAIN data THEN "unexpected"
    ELSE IF data["message"] = "<notjson>" THEN "JSONDecodeError"
    ELSE IF data["message"] = "reward-redeemed" THEN "redeemed"
    ELSE "not_a_reward"

(* Lines 70-91: what event_raw_pubsub does with data: "cycle" (line 75),   *)
(* "redeemed" (line 91), the exception it raises, or the branch that       *)
(* returns.                                                                *)
PubSubVerdict(data) ==
    IF "error" \in DOMAIN data /\ data["error"] = JsonNull THEN "TypeError"
    ELSE IF "error" \in DOMAIN data /\ Len(data["error"]) >= 1 THEN
        IF data["error"] = "ERR_BADAUTH" THEN "cycle" ELSE "error"
    ELSE IF "type" \notin DOMAIN data THEN "no_type"
    ELSE IF data["type"] \in {"PONG", "RESPONSE"} THEN "general"
    ELSE IF data["type"] # "MESSAGE" \/ "message" \notin DOMAIN data THEN "unexpected"
    ELSE IF data["message"] = "<notjson>" THEN "JSONDecodeError"
    ELSE IF data["message"] = "reward-redeemed" THEN "redeemed"
    ELSE "not_a_reward"

(* The users of the bot: A has a token pair on record, B has none.         *)
ConfiguredUsers == <<"A", "B">>

BotInit ==
    /\ tokens = [h \in Handles |-> IF h = "A" THEN InitialPair ELSE NoTokens]
    /\ pc = "idle"
    /\ repo = "store"
    /\ users = ConfiguredUsers
    /\ idx = 1
    /\ refreshToken = None
    /\ resp = NoResponse
    /\ result = "none"
    /\ outcome = AllPending
    /\ validateCalls = AllZero
    /\ exchangeCalls = AllZero
    /\ cycles = 0
    /\ issued = [h \in Handles |-> NoTokens]
    /\ silent = FALSE
    /\ handled = "none"
    /\ CtorIdle
    /\ WeatherIdle
    /\ ChatIdle

(* event_raw_pubsub(data), lines 70-91, while no other handler runs; on    *)
(* ERR_BADAUTH it calls __validateAndRefreshTokens (lines 189-197), whose  *)
(* cycle the steps of AuthHelper carry on.                                 *)
event_raw_pubsub(data) ==
    /\ pc = "idle"
    /\ handled' = PubSubVerdict(data)
    /\ IF PubSubVerdict(data) = "cycle"
       THEN BeginCycle("store")
       ELSE UNCHANGED authVars
    /\ UNCHANGED <<ctorVars, weatherVars, chatVars>>

BotNext ==
    \/ \E data \in PubSubEvents : event_raw_pubsub(data)
    \/ EndCycle
    \/ SkipUser
    \/ SendValidate
    \/ \E r \in ValidateResponses : ValidateResponse(r)
    \/ \E r \in ExchangeResponses : ExchangeResponse(r)

BotSpec == BotInit /\ [][BotNext]_vars

(* ----------------------- CynanBot: chat handlers ------------------------ *)
ClockSteps == {1, 30, 60, 20 * 60, 30 * 60}     \* seconds between two messages

DeerForceCooldown == 20 * 60    \* line 114: timedelta(minutes = 20)
CynanCooldown == 30 * 60        \* line 128: timedelta(minutes = 30)
AnalogueCooldown == 1 * 60      \* line 207: timedelta(minutes = 1)
WotdCooldown == 30              \* lines 264, 289, 349: timedelta(seconds = 30)

DeerForce == "D e e R F o r C e"
WotdCommands == {"!esword", "!jaword", "!zhword"}
Authors == {"CynanMachae", "viewer"}
Contents == {DeerForce, "!analogue", "hello"} \cup WotdCommands

ChatMessages ==
    {[channel |-> c, author |-> a, content |-> x] :
        c \in Channels, a \in Authors, x \in Contents}

(* What the analogue store / word-of-the-day fetch of a command returns.   *)
FetchResults == {"none", "empty", "some"}

(* The fetch results that can matter to a message: only the commands with *)
(* a cooldown fetch anything.                                              *)
FetchesOf(msg) ==
    IF msg.content \in {"!analogue"} \cup WotdCommands THEN FetchResults ELSE {"none"}

(* The commands each user has enabled (isAnalogueEnabled, ...).            *)
Enabled ==
    [c \in Channels |->
        IF c = "A" THEN {"!analogue"} \cup WotdCommands ELSE {"!esword", "!zhword"}]

(* The bot sends text to channel c (nothing is sent for the text "nothing" *)
(* and for the "..._cooldown" texts).                                      *)
Say(c, text) == sent' = [channel |-> c, text |-> text]

(* Mutant of CooldownOver: a trigger exactly one cooldown later passes.    *)
CooldownOver_NotStrict(last, t, cooldown) == ~last.set \/ t - cooldown >= last.at

(* Lines 121, 130, 212, 269: last == None or now - cooldown > last.        *)
CooldownOver(last, t, cooldown) == ~last.set \/ t - cooldown > last.at

(* Mutant of WotdTimesAfter: the timer is set only when the fetch gave a   *)
(* word.                                                                   *)
WotdTimesAfter_OnSuccessOnly(times, handle, t, fetched) ==
    IF fetched = "none" THEN times ELSE [times EXCEPT ![handle] = Time(t)]

(* Lines 269-270, 294-295, 354-355: the timer is set before the fetch,     *)
(* whatever the fetch returns.                                             *)
WotdTimesAfter(times, handle, t, fetched) == [times EXCEPT ![handle] = Time(t)]

(* Lines 272-277: the reply of a word-of-the-day command.                  *)
WotdReply(fetched) ==
    IF fetched = "none" THEN "wotd_error"
    ELSE IF fetched = "some" THEN "wotd_with_examples" ELSE "wotd"

(* Lines 216-221: the reply of !analogue.                                  *)
AnalogueReply(fetched) ==
    IF fetched = "none" THEN "analogue_error"
    ELSE IF fetched = "empty" THEN "analogue_nothing" ELSE "analogue_stock"

ChatInit ==
    /\ ChatIdle
    /\ AuthIdle
    /\ CtorIdle
    /\ WeatherIdle
    /\ BotIdle

ClockTick(d) ==
    /\ clockTicks < MaxClockTicks
    /\ clockTicks' = clockTicks + 1
    /\ clock' = clock + d
    /\ UNCHANGED <<chatEvents, lastAnalogueStockMessageTimes, lastCynanMessageTime,
                   lastDeerForceMessageTimes, lastWotdMessageTimes, sent>>

(* __handleDeerForceMessage, lines 112-123.                                *)
HandleDeerForce(c) ==
    /\ IF CooldownOver(lastDeerForceMessageTimes[c], clock, DeerForceCooldown)
       THEN /\ lastDeerForceMessageTimes' =
                    [lastDeerForceMessageTimes EXCEPT ![c] = Time(clock)]
            /\ Say(c, "deer")
       ELSE /\ Say(c, "deer_cooldown")
            /\ UNCHANGED lastDeerForceMessageTimes
    /\ UNCHANGED <<lastAnalogueStockMessageTimes, lastCynanMessageTime, lastWotdMessageTimes>>

(* command_analogue, lines 199-221.                                        *)
CommandAnalogue(c, fetched) ==
    /\ IF "!analogue" \notin Enabled[c] THEN
            Say(c, "nothing") /\ UNCHANGED lastAnalogueStockMessageTimes
       ELSE IF CooldownOver(lastAnalogueStockMessageTimes[c], clock, AnalogueCooldown) THEN
            /\ lastAnalogueStockMessageTimes' =
                    [lastAnalogueStockMessageTimes EXCEPT ![c] = Time(clock)]
            /\ Say(c, AnalogueReply(fetched))
       ELSE Say(c, "analogue_cooldown") /\ UNCHANGED lastAnalogueStockMessageTimes
    /\ UNCHANGED <<lastDeerForceMessageTimes, lastWotdMessageTimes>>

(* command_esword, command_jaword, command_zhword: lines 256-279, 281-304, *)
(* 341-364.                                                                *)
CommandWotd(c, command, fetched) ==
    /\ IF command \notin Enabled[c] THEN
            Say(c, "nothing") /\ UNCHANGED lastWotdMessageTimes
       ELSE IF CooldownOver(lastWotdMessageTimes[c], clock, WotdCooldown) THEN
            /\ lastWotdMessageTimes' = WotdTimesAfter(lastWotdMessageTimes, c, clock, fetched)
            /\ Say(c, WotdReply(fetched))
       ELSE Say(c, "wotd_cooldown") /\ UNCHANGED lastWotdMessageTimes
    /\ UNCHANGED <<lastDeerForceMessageTimes, lastAnalogueStockMessageTimes>>

(* handle_commands (line 68) for the commands that have a cooldown.        *)
HandleCommands(msg, fetched) ==
    IF msg.content = "!analogue" THEN CommandAnalogue(msg.channel, fetched)
    ELSE IF msg.content \in WotdCommands THEN CommandWotd(msg.channel, msg.content, fetched)
    ELSE /\ Say(msg.channel, "nothing")
         /\ UNCHANGED <<lastDeerForceMessageTimes, lastAnalogueStockMessageTimes,
                        lastWotdMessageTimes>>

(* event_message, lines 58-68, with __handleMessageFromCynan, lines        *)
(* 125-134.                                                                *)
event_message(msg, fetched) ==
    /\ chatEvents < MaxChatEvents
    /\ chatEvents' = chatEvents + 1
    /\ IF msg.content = DeerForce THEN HandleDeerForce(msg.channel)
       ELSE IF /\ msg.author = "CynanMachae"
               /\ CooldownOver(Time(lastCynanMessageTime), clock, CynanCooldown)
       THEN /\ lastCynanMessageTime' = clock
            /\ Say(msg.channel, "wave")
            /\ UNCHANGED <<lastDeerForceMessageTimes, lastAnalogueStockMessageTimes,
                           lastWotdMessageTimes>>
       ELSE HandleCommands(msg, fetched) /\ UNCHANGED lastCynanMessageTime
    /\ UNCHANGED <<clock, clockTicks>>

ChatNext ==
    \/ \E d \in ClockSteps : ClockTick(d) /\ UNCHANGED <<authVars, ctorVars, weatherVars, botVars>>
    \/ \E msg \in ChatMessages : \E fetched \in FetchesOf(msg) :
            event_message(msg, fetched) /\ UNCHANGED <<authVars, ctorVars, weatherVars, botVars>>

ChatSpec == ChatInit /\ [][ChatNext]_vars

(* ------------------------- TimedDict (TTL cache) ------------------------ *)
(* The cache is the set of its entries [key, value, insertedAt].           *)
(* An entry is fresh at time t while t - insertedAt < timeDelta.           *)
IsFresh(e, t, timeDelta) == t - e.insertedAt < timeDelta

(* get(key): the value of the fresh entry of key, NoReport (None) if none. *)
TimedDictGet(entries, key, t, timeDelta) ==
    IF \E e \in entries : e.key = key /\ IsFresh(e, t, timeDelta)
    THEN (CHOOSE e \in entries : e.key = key /\ IsFresh(e, t, timeDelta)).value
    ELSE NoReport

(* get(key), its side effect: an expired entry of key is removed.          *)
TimedDictAfterGet(entries, key, t, timeDelta) ==
    {e \in entries : ~(e.key = key /\ ~IsFresh(e, t, timeDelta))}

(* set(key, value): replaces the entry of key by one inserted at t.        *)
TimedDictSet(entries, key, value, t) ==
    {e \in entries : e.key # key}
        \cup {[key |-> key, value |-> value, insertedAt |-> t]}

(* delete(key): removes the entry of key; nothing happens if there is none. *)
TimedDictDelete(entries, key) == {e \in entries : e.key # key}

(* ------------------- CynanBotCommon.utils helpers ----------------------- *)
IsValidStr(v) == v # None
IsValidNum(v) == v.type = "num"

(* ----------------------- WeatherRepository: values ---------------------- *)
TickSteps == {1, 89}     \* minutes the clock moves in one step

(* Mutant of CacheTimeDelta: one hour.                                     *)
CacheTimeDelta_OneHour == 1 * 60

(* Line 21: the default cacheTimeDelta, timedelta(hours=1, minutes=30).    *)
CacheTimeDelta == 1 * 60 + 30

IqAirApiKeys == {None, "key"}

Day(sunrise, sunset, temp) == [sunrise |-> sunrise, sunset |-> sunset, temp |-> temp]
GoodCurrent == [humidity |-> Num(505), pressure |-> Num(10132), temp |-> Num(215),
                sunrise |-> 100, sunset |-> 200]
Today == Day(100, 200, [max |-> Num(230), min |-> Num(110)])
Tomorrow == Day(110, 210, [max |-> Num(250), min |-> Num(125)])
GoodBody == [current |-> GoodCurrent, daily |-> <<Today, Tomorrow>>]

Without(f, key) == [k \in DOMAIN f \ {key} |-> f[k]]

(* The JSON objects the weather upstream answers with.                     *)
WeatherBodies ==
    {GoodBody}
    \cup {[GoodBody EXCEPT !.current[k] = v] :
            k \in {"humidity", "pressure", "temp"}, v \in {NullNum, NaNNum}}
    \cup {[GoodBody EXCEPT !.daily[2].temp[k] = NullNum] : k \in {"max", "min"}}
    \cup {[GoodBody EXCEPT !.current = Without(GoodCurrent, k)] :
            k \in {"humidity", "pressure", "temp"}}
    \cup {[GoodBody EXCEPT !.daily[2].temp = Without(Tomorrow.temp, "max")]}
    \cup {[GoodBody EXCEPT !.daily = <<Today>>]}
    \cup {Without(GoodBody, "current"), Without(GoodBody, "daily")}
    \cup {[cod |-> 401, message |-> "Invalid API key"]}

(* The request ran into its timeout (requests.exceptions.Timeout).         *)
RequestTimeout == [kind |-> "timeout", body |-> << >>]

(* An answer r that came with HTTP status st; answers without a status     *)
(* field are 2xx. The code never reads the status.                         *)
Http(st, r) == [kind |-> r.kind, body |-> r.body, status |-> st]

(* The answers of the weather upstream that are not 2xx.                   *)
Non2xxResponses ==
    {Http(401, JsonResponse([cod |-> 401, message |-> "Invalid API key"])),
     Http(502, NotJson)}

WeatherResponses ==
    {TransportError, RequestTimeout, NotJson}
        \cup {JsonResponse(o) : o \in WeatherBodies}
        \cup Non2xxResponses

(* The JSON objects the air-quality upstream answers with; aqius stands    *)
(* for data.current.pollution.aqius.                                       *)
AirBodies ==
    {[status |-> "success", aqius |-> Num(420)], [status |-> "success"],
     [status |-> "fail"], << >>}

AirResponses ==
    {TransportError, RequestTimeout, NotJson} \cup {JsonResponse(o) : o \in AirBodies}

(* ---------------------- WeatherRepository: helpers ---------------------- *)
(* Lines 110-112 and 146-148: the exceptions of requests.get that are      *)
(* caught, which leave rawResponse None.                                   *)
Caught(r) == r.kind \in {"transport", "timeout"}

(* Lines 40-42: the positions of the forecast days later than today.       *)
LaterDays(json) ==
    {i \in 1..Len(json["daily"]) :
        /\ json["daily"][i]["sunrise"] > json["current"]["sunrise"]
        /\ json["daily"][i]["sunset"] > json["current"]["sunset"]}

(* __chooseTomorrowFromForecast (lines 36-44): the first later day.        *)
ChooseTomorrow(json) ==
    json["daily"][CHOOSE i \in LaterDays(json) : \A j \in LaterDays(json) : i <= j]

(* Lines 155-181: the exception reading the weather body raises, or "ok".  *)
(* (The condition and alert lists are left out.)                           *)
ParseError(json) ==
    IF "current" \notin DOMAIN json THEN "KeyError"
    ELSE IF "humidity" \notin DOMAIN json["current"] THEN "KeyError"
    ELSE IF "pressure" \notin DOMAIN json["current"] THEN "KeyError"
    ELSE IF "temp" \notin DOMAIN json["current"] THEN "KeyError"
    ELSE IF "sunrise" \notin DOMAIN json["current"] THEN "KeyError"
    ELSE IF "sunset" \notin DOMAIN json["current"] THEN "KeyError"
    ELSE IF "daily" \notin DOMAIN json THEN "KeyError"
    ELSE IF LaterDays(json) = {} THEN "RuntimeError"
    ELSE IF "temp" \notin DOMAIN ChooseTomorrow(json) THEN "KeyError"
    ELSE IF "max" \notin DOMAIN ChooseTomorrow(json)["temp"] THEN "KeyError"
    ELSE IF "min" \notin DOMAIN ChooseTomorrow(json)["temp"] THEN "KeyError"
    ELSE "ok"

(* Lines 157-181: the five numbers read from the weather body.             *)
Parsed(json) ==
    [humidity |-> json["current"]["humidity"],
     pressure |-> json["current"]["pressure"],
     temperature |-> json["current"]["temp"],
     tomorrowsHighTemperature |-> ChooseTomorrow(json)["temp"]["max"],
     tomorrowsLowTemperature |-> ChooseTomorrow(json)["temp"]["min"]]

(* __fetchAirQuality, lines 118-123: the exception the air-quality body    *)
(* raises, or "ok".                                                        *)
AirError(json) ==
    IF "status" \notin DOMAIN json THEN "ok"
    ELSE IF json["status"] # "success" THEN "ok"
    ELSE IF "aqius" \notin DOMAIN json THEN "KeyError"
    ELSE "ok"

(* __fetchAirQuality, lines 120-123: the air quality of a body, None       *)
(* unless the status is success.                                           *)
AirQualityOf(json) ==
    IF "status" \notin DOMAIN json THEN NoNum
    ELSE IF json["status"] # "success" THEN NoNum
    ELSE json["aqius"]

(* Python's round() to an integer, on tenths: halves go to the even side.  *)
PyRound(tenths) ==
    LET q == tenths \div 10
        r == tenths % 10
    IN  IF r < 5 THEN q
        ELSE IF r > 5 THEN q + 1
        ELSE IF q % 2 = 0 THEN q ELSE q + 1

(* Mutant of ReportError: the forecast temperatures are not looked at.     *)
ReportError_CurrentOnly(p) ==
    IF ~IsValidNum(p.humidity) THEN "ValueError"
    ELSE IF ~IsValidNum(p.pressure) THEN "ValueError"
    ELSE IF ~IsValidNum(p.temperature) THEN "ValueError"
    ELSE "ok"

(* WeatherReport.__init__, lines 240-249: the exception raised, or "ok".   *)
ReportError(p) ==
    IF ~IsValidNum(p.humidity) THEN "ValueError"
    ELSE IF ~IsValidNum(p.pressure) THEN "ValueError"
    ELSE IF ~IsValidNum(p.temperature) THEN "ValueError"
    ELSE IF ~IsValidNum(p.tomorrowsHighTemperature) THEN "ValueError"
    ELSE IF ~IsValidNum(p.tomorrowsLowTemperature) THEN "ValueError"
    ELSE "ok"

(* WeatherReport.__init__, lines 251-256: the report built.                *)
NewReport(airQuality, p) ==
    [airQuality |-> airQuality,
     humidity |-> Num(10 * PyRound(p.humidity.tenths)),
     pressure |-> Num(10 * PyRound(p.pressure.tenths)),
     temperature |-> p.temperature,
     tomorrowsHighTemperature |-> p.tomorrowsHighTemperature,
     tomorrowsLowTemperature |-> p.tomorrowsLowTemperature]

(* WeatherReport.hasAirQuality, lines 324-325.                             *)
HasAirQuality(report) == report.airQuality # NoNum

(* Mutant of CacheHit: the cached value is never used.                     *)
CacheHit_Never(cacheValue) == FALSE

(* Line 131: the cached value is returned when it is not None.             *)
CacheHit(cacheValue) == cacheValue # NoReport

(* Mutant of CacheAfterLookup: an expired entry stays where it is.         *)
CacheAfterLookup_NoEviction(entries, id, t) == entries

(* Line 129: what self.__cache[location.getId()] leaves in the cache.      *)
CacheAfterLookup(entries, id, t) == TimedDictAfterGet(entries, id, t, CacheTimeDelta)

(* Mutant of CacheAfterFailure: the entry of the key stays.                *)
CacheAfterFailure_KeepsEntry(entries, id) == entries

(* Mutant of CacheAfterFailure: the whole cache is dropped.                *)
CacheAfterFailure_DropsAll(entries, id) == {}

(* Lines 152 and 207: del self.__cache[location.getId()].                  *)
CacheAfterFailure(entries, id) == TimedDictDelete(entries, id)

(* Mutant of CacheAfterSuccess: the report is added beside the old entry.  *)
CacheAfterSuccess_KeepsOld(entries, id, report, t) ==
    entries \cup {[key |-> id, value |-> report, insertedAt |-> t]}

(* Line 209: self.__cache[location.getId()] = weatherReport.               *)
CacheAfterSuccess(entries, id, report, t) == TimedDictSet(entries, id, report, t)

(* The call of caller w ends with result r.                                *)
EndFetch(w, r) ==
    /\ wpc' = [wpc EXCEPT ![w] = "idle"]
    /\ wresult' = [wresult EXCEPT ![w] = r]
    /\ wparsed' = [wparsed EXCEPT ![w] = NoParsed]
    /\ wretry' = [wretry EXCEPT ![w] = FALSE]

(* Lines 189-211: the report is built from p and the air quality, and is   *)
(* cached and returned; a ValueError of WeatherReport gives None.          *)
BuildReport(w, airQuality, p) ==
    IF ReportError(p) # "ok"
    THEN /\ cache' = CacheAfterFailure(cache, wloc[w])
         /\ EndFetch(w, Absent)
    ELSE /\ cache' = CacheAfterSuccess(cache, wloc[w], NewReport(airQuality, p), now)
         /\ EndFetch(w, Returned(NewReport(airQuality, p)))

(* A call for location id has returned absent and is the last call of its  *)
(* caller.                                                                 *)
AfterAbsent(id) ==
    \E v \in Workers : wpc[v] = "idle" /\ wresult[v] = Absent /\ wloc[v] = id

(* ---------------------- WeatherRepository: actions ---------------------- *)
WeatherInit ==
    /\ now = 0
    /\ ticks = 0
    /\ iqAirApiKey \in IqAirApiKeys
    /\ cache = {}
    /\ wpc = [w \in Workers |-> "idle"]
    /\ wloc = [w \in Workers |-> None]
    /\ wparsed = [w \in Workers |-> NoParsed]
    /\ wresult = [w \in Workers |-> NoResult]
    /\ wcalls = [w \in Workers |-> NoCalls]
    /\ wretry = [w \in Workers |-> FALSE]
    /\ fetches = 0
    /\ AuthIdle
    /\ CtorIdle
    /\ BotIdle
    /\ ChatIdle

(* Time passes.                                                            *)
Tick(d) ==
    /\ ticks < MaxTicks
    /\ ticks' = ticks + 1
    /\ now' = now + d
    /\ UNCHANGED <<iqAirApiKey, cache, wpc, wloc, wparsed, wresult, wcalls, fetches, wretry,
                   authVars, ctorVars, botVars, chatVars>>

(* fetchWeather(location), lines 125-146: the cache is consulted; a hit    *)
(* returns, a miss issues the weather call.                                *)
FetchWeather(w, id) ==
    /\ wpc[w] = "idle"
    /\ fetches < MaxFetches
    /\ fetches' = fetches + 1
    /\ wloc' = [wloc EXCEPT ![w] = id]
    /\ IF id = None THEN
            /\ EndFetch(w, Raised("ValueError"))
            /\ wcalls' = [wcalls EXCEPT ![w] = NoCalls]
            /\ UNCHANGED cache
       ELSE /\ cache' = CacheAfterLookup(cache, id, now)
            /\ IF CacheHit(TimedDictGet(cache, id, now, CacheTimeDelta))
               THEN /\ EndFetch(w, Returned(TimedDictGet(cache, id, now, CacheTimeDelta)))
                    /\ wcalls' = [wcalls EXCEPT ![w] = NoCalls]
               ELSE /\ wpc' = [wpc EXCEPT ![w] = "weather"]
                    /\ wresult' = [wresult EXCEPT ![w] = NoResult]
                    /\ wcalls' = [wcalls EXCEPT ![w] = [weather |-> 1, air |-> 0]]
                    /\ wretry' = [wretry EXCEPT ![w] = AfterAbsent(id)]
                    /\ UNCHANGED wparsed
    /\ UNCHANGED <<now, ticks, iqAirApiKey, authVars, ctorVars, botVars, chatVars>>

(* Lines 143-188: the weather call comes back with r (a Timeout of the     *)
(* request is one of the transport errors caught at line 147).             *)
WeatherResponse(w, r) ==
    /\ wpc[w] = "weather"
    /\ IF Caught(r) THEN
            /\ cache' = CacheAfterFailure(cache, wloc[w])
            /\ EndFetch(w, Absent)
            /\ UNCHANGED wcalls
       ELSE IF r.kind = "notjson" THEN
            EndFetch(w, Raised("JSONDecodeError")) /\ UNCHANGED <<cache, wcalls>>
       ELSE IF ParseError(r.body) # "ok" THEN
            EndFetch(w, Raised(ParseError(r.body))) /\ UNCHANGED <<cache, wcalls>>
       ELSE IF ~IsValidStr(iqAirApiKey) THEN
            BuildReport(w, NoNum, Parsed(r.body)) /\ UNCHANGED wcalls
       ELSE /\ wpc' = [wpc EXCEPT ![w] = "air"]
            /\ wparsed' = [wparsed EXCEPT ![w] = Parsed(r.body)]
            /\ wcalls' = [wcalls EXCEPT ![w].air = 1]
            /\ UNCHANGED <<cache, wresult, wretry>>
    /\ UNCHANGED <<now, ticks, iqAirApiKey, wloc, fetches, authVars, ctorVars, botVars, chatVars>>

(* Lines 107-123 and 188-211: the air-quality call comes back with r.      *)
AirResponse(w, r) ==
    /\ wpc[w] = "air"
    /\ IF Caught(r) THEN BuildReport(w, NoNum, wparsed[w])
       ELSE IF r.kind = "notjson" THEN
            EndFetch(w, Raised("JSONDecodeError")) /\ UNCHANGED cache
       ELSE IF AirError(r.body) # "ok" THEN
            EndFetch(w, Raised(AirError(r.body))) /\ UNCHANGED cache
       ELSE BuildReport(w, AirQualityOf(r.body), wparsed[w])
    /\ UNCHANGED <<now, ticks, iqAirApiKey, wloc, wcalls, fetches,
                   authVars, ctorVars, botVars, chatVars>>

WeatherNext ==
    \/ \E d \in TickSteps : Tick(d)
    \/ \E w \in Workers, id \in LocationIds \cup {None} : FetchWeather(w, id)
    \/ \E w \in Workers, r \in WeatherResponses : WeatherResponse(w, r)
    \/ \E w \in Workers, r \in AirResponses : AirResponse(w, r)

WeatherSpec == WeatherInit /\ [][WeatherNext]_vars

(* ------------------------------ claims --------------------------------- *)
Positions == 1..MaxUsers

(* The JSON object json has a non-empty string under key.                  *)
HasNonEmpty(json, key) == key \in DOMAIN json /\ json[key] \notin {"", JsonNull}

(* The response is a JSON object without a non-empty access_token or       *)
(* without a non-empty refresh_token.                                      *)
MalformedExchange(r) ==
    /\ r.kind = "json"
    /\ ~(HasNonEmpty(r.body, "access_token") /\ HasNonEmpty(r.body, "refresh_token"))

(* The call has ended, by a return or by an exception.                     *)
CycleEnded == pc = "idle" /\ result # "none"

(* C1: a cycle over [A, B, C] in which A's token is accepted, B's is       *)
(* rejected and refreshed, and C's is rejected and its token exchange is   *)
(* malformed, ends with A's and C's pairs unchanged, B's pair replaced by  *)
(* the new pair, and no exception leaving the call.  (Stated for the first *)
(* cycle, whose starting pairs are the initial ones.)                      *)
C1_IsolationABC ==
    (/\ CycleEnded
     /\ cycles = 1
     /\ users = <<"A", "B", "C">>
     /\ outcome[1] = "valid"
     /\ outcome[2] = "refreshed"
     /\ outcome[3] = "refresh_failed"
     /\ MalformedExchange(resp))
    => (/\ result = "returned"
        /\ tokens["A"] = InitialPair
        /\ issued["B"] # NoTokens
        /\ tokens["B"] = issued["B"]
        /\ tokens["C"] = InitialPair)

(* C2: when the call has ended, every user at a position after a failed   *)
(* validate or refresh that has a stored access token has been validated   *)
(* in this cycle and has reached an outcome.                               *)
C2_FailureDoesNotAbort ==
    CycleEnded =>
        \A i, j \in 1..Len(users) :
            (/\ i < j
             /\ outcome[i] \in {"validate_failed", "refresh_failed"}
             /\ getAccessToken(tokens, users[j]) # None)
            => (validateCalls[j] = 1 /\ outcome[j] # "pending")

(* C3: a token-exchange response without a non-empty access_token or       *)
(* without a non-empty refresh_token ends the refresh with an exception    *)
(* and leaves the whole Token Store as it was.                             *)
C3_RefreshAtomicity ==
    [][(pc = "refresh" /\ MalformedExchange(resp'))
        => (/\ tokens' = tokens
            /\ result' \in {"ValueError", "TypeError"}
            /\ outcome'[idx] = "refresh_failed")]_vars

C3_Witness ==
    /\ CycleEnded
    /\ outcome[idx] = "refresh_failed"
    /\ resp.kind = "json"
    /\ HasNonEmpty(resp.body, "access_token")
    /\ "refresh_token" \notin DOMAIN resp.body
    /\ result = "ValueError"
    /\ tokens[users[idx]] = InitialPair

(* C4: a stored pair changes only in the step that handles a well-formed   *)
(* token-exchange response for that handle, and then becomes exactly the   *)
(* pair of that response; so every stored pair is an initial one or the    *)
(* pair of one response for that handle.                                   *)
C4_PairReplacedWhole ==
    /\ [](\A h \in Handles :
            \/ tokens[h] \in {NoTokens, InitialPair}
            \/ tokens[h] = issued[h])
    /\ [][\A h \in Handles :
            tokens'[h] # tokens[h]
            => (/\ pc = "refresh"
                /\ users[idx] = h
                /\ resp'.kind = "json"
                /\ HasNonEmpty(resp'.body, "access_token")
                /\ HasNonEmpty(resp'.body, "refresh_token")
                /\ tokens'[h] = [access |-> resp'.body["access_token"],
                                 refresh |-> resp'.body["refresh_token"]])]_vars

C4_Witness ==
    \E h \in Handles :
        /\ tokens[h].access = "a2"
        /\ tokens[h].refresh = "r1"
        /\ issued[h] = tokens[h]
        /\ cycles = 2

(* C5: when the validate response has a non-empty client_id, the step      *)
(* issues no token exchange and leaves the Token Store alone, and the      *)
(* cycle goes to the next user; a user found valid has no token-exchange   *)
(* call in that cycle.                                                     *)
C5_AcceptedIssuesNoRefresh ==
    /\ [](\A i \in Positions : outcome[i] = "valid" => exchangeCalls[i] = 0)
    /\ [][(pc = "validate" /\ resp'.kind = "json" /\ HasNonEmpty(resp'.body, "client_id"))
            => (/\ tokens' = tokens
                /\ exchangeCalls' = exchangeCalls
                /\ pc' = "loop"
                /\ outcome'[idx] = "valid")]_vars

C5_Witness ==
    /\ cycles = 2
    /\ Len(users) = 2
    /\ idx = 3
    /\ outcome[1] = "valid"
    /\ outcome[2] = "valid"
    /\ exchangeCalls = AllZero
    /\ tokens[users[1]] = InitialPair

C7_NoTokenSkipped ==
    /\ [](\A i \in Positions :
            outcome[i] = "skipped" => (validateCalls[i] = 0 /\ exchangeCalls[i] = 0))
    /\ [][(pc = "loop" /\ idx <= Len(users) /\ tokens[users[idx]].access = None)
            => (/\ pc' = "loop"
                /\ idx' = idx + 1
                /\ outcome'[idx] = "skipped"
                /\ result' = "none"
                /\ tokens' = tokens
                /\ validateCalls' = validateCalls
                /\ exchangeCalls' = exchangeCalls)]_vars

C7_Witness ==
    /\ CycleEnded
    /\ result = "returned"
    /\ Len(users) = 3
    /\ outcome[1] = "skipped"
    /\ outcome[2] = "refreshed"
    /\ outcome[3] = "skipped"

(* C8: a call with a Token Store and an empty list of users returns        *)
(* normally at once, with no upstream call and the Token Store unchanged.  *)
C8_EmptyListNoOp ==
    [][(pc = "idle" /\ cycles' = cycles + 1 /\ users = << >> /\ repo' # None)
        => (/\ pc' = "idle"
            /\ result' = "returned"
            /\ tokens' = tokens
            /\ validateCalls' = AllZero
            /\ exchangeCalls' = AllZero)]_vars

C8_Witness ==
    /\ users = << >>
    /\ cycles = 1
    /\ repo = "store"
    /\ result = "returned"
    /\ \E h \in Handles : tokens[h] = InitialPair

(* C9: a transport failure of the validate call issues no token exchange,  *)
(* leaves the Token Store alone, and the cycle goes on to the next user.   *)
C9_ValidateTransportSkips ==
    [][(pc = "validate" /\ resp'.kind = "transport")
        => (/\ tokens' = tokens
            /\ exchangeCalls' = exchangeCalls
            /\ pc' = "loop"
            /\ idx' = idx + 1)]_vars

(* C10: in one cycle each position of the list gets at most one validate   *)
(* call and at most one token-exchange call.                               *)
C10_NoRetry ==
    \A i \in Positions : validateCalls[i] <= 1 /\ exchangeCalls[i] <= 1

C10_Witness ==
    /\ CycleEnded
    /\ outcome[idx] = "refresh_failed"
    /\ MalformedExchange(resp)
    /\ validateCalls[idx] = 1
    /\ exchangeCalls[idx] = 1

C12_CallsBoundedByTimeout ==
    (pc \in {"validate", "refresh"} /\ silent) => AuthRequestTimeout # None

(* A string with at least one character that is not whitespace.            *)
NonBlank(v) ==
    /\ v.type = "str"
    /\ \E i \in 1..Len(v.chars) : v.chars[i] \notin WhitespaceChars

(* The auth file is named, exists, can be opened and holds a JSON object.  *)
AuthFileReadable == NonBlank(authFile) /\ fileState = "ok" /\ fileJson.kind = "json"

(* C13: the construction succeeds exactly when the auth file is readable   *)
(* and gives clientId, clientSecret and ircAuthToken each as a non-blank   *)
(* string; then the helper holds these three values, and otherwise an      *)
(* exception is raised and the caller holds no helper.                     *)
C13_ConstructIffWellFormed ==
    ctorResult # "none" =>
        /\ (ctorResult = "constructed") <=>
                (/\ AuthFileReadable
                 /\ \A k \in ConfigKeys :
                        k \in DOMAIN fileJson.body /\ NonBlank(fileJson.body[k]))
        /\ ctorResult = "constructed" => \A k \in ConfigKeys : helper[k] = fileJson.body[k]
        /\ ctorResult # "constructed" => helper = NoHelper

C13_Witness ==
    /\ ctorResult = "constructed"
    /\ helper.clientId = Str(<<" ", "x">>)
    /\ helper.clientSecret = Str(<<"x">>)
    /\ NonBlank(helper.ircAuthToken)


(* ------------------------ Claims: weather cache ------------------------- *)
(* Caller w stores a report in this step (line 209).                       *)
SetsReport(w) == wpc[w] # "idle" /\ wresult'[w].kind = "report"

(* Caller w starts fetchWeather for location id k in this step.            *)
Starts(w, k) == FetchWeather(w, k)

EntriesOf(entries, k) == {e \in entries : e.key = k}

(* C14: after set(k, v) the cache holds exactly one entry for k, whatever  *)
(* entry k had before; its age is zero and get(k) right after returns v.   *)
C14_SetReplaces ==
    [][\A w \in Workers :
        SetsReport(w) =>
            /\ Cardinality(EntriesOf(cache', wloc[w])) = 1
            /\ \A e \in EntriesOf(cache', wloc[w]) :
                    e.insertedAt = now' /\ e.value = wresult'[w].report
            /\ TimedDictGet(cache', wloc[w], now', CacheTimeDelta) = wresult'[w].report]_vars

(* Both callers stored a different report under the same key, the second   *)
(* over the entry of the first, later in time.                             *)
C14_Witness ==
    /\ \A w \in Workers : wpc[w] = "idle" /\ wresult[w].kind = "report"
                            /\ wcalls[w].weather = 1 /\ wloc[w] = "loc1"
    /\ wresult["w1"].report # wresult["w2"].report
    /\ now > 0
    /\ \E e \in cache : e.key = "loc1" /\ e.insertedAt = now

(* C15: a get returns the stored value exactly while now - insertedAt is   *)
(* below the 90 minutes of the weather cache, and nothing from then on:    *)
(* a call started at age 89 is answered from the cache, one started at     *)
(* age 90 or 91 is a miss.                                                 *)
C15_TtlVisibility ==
    [][\A w \in Workers, k \in LocationIds : \A e \in EntriesOf(cache, k) :
        Starts(w, k) =>
            /\ now - e.insertedAt < 90 =>
                    wpc'[w] = "idle" /\ wresult'[w] = Returned(e.value)
            /\ now - e.insertedAt >= 90 =>
                    wpc'[w] = "weather" /\ wresult'[w] = NoResult]_vars

(* A call was answered from an entry that is 89 minutes old.               *)
C15_Witness ==
    \E w \in Workers, e \in cache :
        /\ now - e.insertedAt = 89
        /\ wpc[w] = "idle" /\ wloc[w] = e.key /\ wcalls[w] = NoCalls
        /\ wresult[w] = Returned(e.value)

(* C16: a get of an expired entry removes that entry and nothing else, a   *)
(* get has no other effect on the cache, a report stored afterwards is the *)
(* only entry of its key and has age zero, and the passing of time alone   *)
(* removes nothing.                                                        *)
C16_LazyEviction ==
    [][/\ \A w \in Workers, k \in LocationIds :
            Starts(w, k) =>
                cache' = {e \in cache : e.key # k \/ now - e.insertedAt < 90}
       /\ \A w \in Workers :
            SetsReport(w) =>
                \A e \in EntriesOf(cache', wloc[w]) : e.insertedAt = now'
       /\ now' # now => cache' = cache]_vars

(* The get of a running call found the entry another call had stored       *)
(* expired, and removed it.                                                *)
C16_Witness ==
    \E w, v \in Workers :
        /\ w # v /\ fetches = 2
        /\ wpc[v] = "idle" /\ wresult[v].kind = "report" /\ wcalls[v].weather = 1
        /\ wpc[w] = "weather" /\ wloc[w] = wloc[v]
        /\ EntriesOf(cache, wloc[w]) = {}

(* C17: delete(k) removes the entry of k and is a no-op when k has none:   *)
(* a call whose weather request fails in transport returns absent without  *)
(* raising, and every call that returns absent leaves the cache without an *)
(* entry of its key and with every entry of the other keys as it was.      *)
C17_DeleteNoOp ==
    [][\A w \in Workers :
        /\ WeatherResponse(w, TransportError) => wresult'[w] = Absent
        /\ (wpc[w] # "idle" /\ wresult'[w] = Absent) =>
                cache' = {e \in cache : e.key # wloc[w]}]_vars

(* A call for a key that has no entry failed in transport and returned     *)
(* absent, while the entry of the other key is still cached.               *)
C17_Witness ==
    \E w \in Workers :
        /\ wpc[w] = "idle" /\ wresult[w] = Absent /\ wcalls[w] = [weather |-> 1, air |-> 0]
        /\ wloc[w] = "loc2"
        /\ \E e \in cache : e.key = "loc1"

(* C18: a report fetchWeather returns from upstream is cached under its    *)
(* location id, and a call made while the entry of its id is fresh returns *)
(* the cached report in the same step, with no weather and no air-quality  *)
(* call.                                                                   *)
C18_ReadThrough ==
    [][/\ \A w \in Workers :
            SetsReport(w) =>
                \E e \in cache' : e.key = wloc[w] /\ e.value = wresult'[w].report
       /\ \A w \in Workers, k \in LocationIds : \A e \in EntriesOf(cache, k) :
            (Starts(w, k) /\ IsFresh(e, now, CacheTimeDelta)) =>
                /\ wpc'[w] = "idle"
                /\ wresult'[w] = Returned(e.value)
                /\ wcalls'[w] = NoCalls
                /\ cache' = cache]_vars

(* A report with an air quality was fetched, cached, and a minute later    *)
(* returned by a second call that issued no upstream call.                 *)
C18_Witness ==
    \E w \in Workers, e \in cache :
        /\ e.value.airQuality = Num(420) /\ now - e.insertedAt = 1
        /\ fetches = 2
        /\ wpc[w] = "idle" /\ wloc[w] = e.key /\ wcalls[w] = NoCalls
        /\ wresult[w] = Returned(e.value)

(* ---------------------- Claims: weather failures ------------------------ *)
AllFiveValid(p) ==
    /\ IsValidNum(p.humidity) /\ IsValidNum(p.pressure) /\ IsValidNum(p.temperature)
    /\ IsValidNum(p.tomorrowsHighTemperature) /\ IsValidNum(p.tomorrowsLowTemperature)

(* The call of w ends in this step without a report and without an entry.  *)
EndsAbsent(w) == wresult'[w] = Absent /\ EntriesOf(cache', wloc[w]) = {}

(* C19: when one of the five numbers read for the report is not a          *)
(* well-formed number, the call returns absent and leaves no entry of its  *)
(* location id; every report returned or cached has all five valid.        *)
C19_InvalidFieldFails ==
    [][/\ \A w \in Workers, r \in WeatherResponses :
            (/\ WeatherResponse(w, r) /\ wpc'[w] = "idle"
             /\ r.kind = "json" /\ ParseError(r.body) = "ok"
             /\ ~AllFiveValid(Parsed(r.body))) => EndsAbsent(w)
       /\ \A w \in Workers :
            (wpc[w] = "air" /\ wpc'[w] = "idle" /\ ~AllFiveValid(wparsed[w]))
                => EndsAbsent(w)
       /\ \A e \in cache' : AllFiveValid(e.value)
       /\ \A w \in Workers :
            wresult'[w].kind = "report" => AllFiveValid(wresult'[w].report)]_vars

(* C20: a call of fetchWeather for a location never ends by raising: it    *)
(* returns a report or absent whatever the upstream answered.              *)
C20_NeverRaises ==
    \A w \in Workers :
        (wpc[w] = "idle" /\ wloc[w] # None) => wresult[w].kind # "raised"

(* C21: a connection failure, a timeout and a non-2xx answer of the        *)
(* weather call all end the call with absent, no entry of the location id  *)
(* and no air-quality call.                                                *)
C21_PrimaryFailureAbsent ==
    [][\A w \in Workers, r \in {TransportError, RequestTimeout} \cup Non2xxResponses :
        WeatherResponse(w, r) =>
            /\ wpc'[w] = "idle"
            /\ EndsAbsent(w)
            /\ wcalls'[w].air = 0]_vars

(* The air-quality answer r is a failure: a transport error, a timeout, a  *)
(* body that is not JSON, a status other than success, or no aqius.        *)
AirFailed(r) ==
    \/ Caught(r)
    \/ r.kind = "notjson"
    \/ r.kind = "json" /\ (AirError(r.body) # "ok" \/ AirQualityOf(r.body) = NoNum)

(* Caller w ends this step with a cached report that has no air quality.   *)
EndsWithoutAirQuality(w) ==
    /\ wpc'[w] = "idle"
    /\ wresult'[w].kind = "report"
    /\ ~HasAirQuality(wresult'[w].report)
    /\ AllFiveValid(wresult'[w].report)
    /\ \E e \in cache' : e.key = wloc[w] /\ e.value = wresult'[w].report

(* C22: when the weather fetch succeeded and the air-quality fetch fails   *)
(* in any way, or no key is configured, the call returns and caches a      *)
(* complete report without air quality; it never raises or returns absent. *)
C22_BestEffortAirQuality ==
    [][/\ \A w \in Workers, r \in AirResponses :
            (AirResponse(w, r) /\ AirFailed(r) /\ AllFiveValid(wparsed[w]))
                => EndsWithoutAirQuality(w)
       /\ \A w \in Workers, r \in WeatherResponses :
            (/\ WeatherResponse(w, r) /\ ~IsValidStr(iqAirApiKey)
             /\ r.kind = "json" /\ ParseError(r.body) = "ok"
             /\ AllFiveValid(Parsed(r.body))) => EndsWithoutAirQuality(w)]_vars

(* C23: failures are not cached. A call that returns absent leaves no      *)
(* entry of its location id, nothing but the store of a returned report    *)
(* ever adds an entry (no miss is remembered, at no time), and a call      *)
(* that finds no entry of its id issues a new weather call.                *)
C23_FailuresNotCached ==
    [][/\ \A w \in Workers :
            (wpc[w] # "idle" /\ wresult'[w] = Absent) => EntriesOf(cache', wloc[w]) = {}
       /\ \A e \in cache' \ cache :
            \E w \in Workers :
                SetsReport(w) /\ e.key = wloc[w] /\ e.value = wresult'[w].report
       /\ \A w \in Workers, k \in LocationIds :
            (Starts(w, k) /\ EntriesOf(cache, k) = {}) =>
                /\ wpc'[w] = "weather"
                /\ wcalls'[w] = [weather |-> 1, air |-> 0]]_vars

(* After a call for loc1 had returned absent, and later in time, the next  *)
(* call for loc1 is at the weather upstream.                               *)
C23_Witness ==
    \E w \in Workers :
        /\ wpc[w] = "weather" /\ wretry[w] /\ wloc[w] = "loc1"
        /\ wcalls[w].weather = 1
        /\ now >= CacheTimeDelta

(* C26: with two callers on one repository, a call that missed and then    *)
(* failed never removes a fresh entry of its key, which the other call     *)
(* stored in between.                                                      *)
C26_NoFreshEviction ==
    [][\A w \in Workers :
        (wpc[w] # "idle" /\ wresult'[w] = Absent) =>
            \A e \in EntriesOf(cache, wloc[w]) :
                IsFresh(e, now, CacheTimeDelta) => e \in cache']_vars

(* -------------------- Claims: refresh cycle ordering -------------------- *)
FinalOutcomes == {"skipped", "valid", "refreshed", "refresh_failed"}

(* A token-exchange call is issued in this step only for the user whose    *)
(* validate call just came back rejected.                                  *)
ExchangeOnlyAfterInvalid ==
    \A i \in Positions :
        exchangeCalls'[i] > exchangeCalls[i] =>
            /\ pc = "validate" /\ idx = i /\ validateCalls[i] > 0
            /\ resp'.kind = "json" /\ ValidateVerdict(resp'.body) = "refresh"

(* The Token Store entry of a handle changes in this step only by a        *)
(* well-formed token-exchange response for that handle.                    *)
WriteOnlyAfterWellFormed ==
    \A h \in Handles :
        tokens'[h] # tokens[h] =>
            /\ pc = "refresh" /\ idx <= Len(users) /\ users[idx] = h
            /\ resp'.kind = "json" /\ RefreshError(resp'.body) = "ok"

(* C24: when a cycle over the list ends, every principal of the list has   *)
(* one of the four outcomes; a token exchange is issued only after the     *)
(* validate call of the same handle in this cycle came back rejected, and  *)
(* a Token Store write happens only after a well-formed token-exchange     *)
(* response for that handle.                                               *)
C24_StateMachineOrdering ==
    [][/\ (pc' = "idle" /\ result' # "none" /\ repo' # None) =>
            \A i \in 1..Len(users') : outcome'[i] \in FinalOutcomes
       /\ ExchangeOnlyAfterInvalid
       /\ WriteOnlyAfterWellFormed]_vars

(* C25: after a cycle in which a principal ended REFRESH_FAILED, the next  *)
(* cycle started with the Token Store validates that principal again,      *)
(* whatever happens to the other principals of the list (unless a call of  *)
(* that cycle is never answered).                                          *)
C25_RecoveryNextCycle ==
    \A i \in Positions :
        (/\ cycles = 1 /\ CycleEnded /\ i <= Len(users) /\ outcome[i] = "refresh_failed"
         /\ \A j \in 1..Len(users) : j # i => users[j] # users[i])
            ~> (cycles = 2 /\ (repo = None \/ silent \/ validateCalls[i] >= 1))

(* --------------------------- Claims: pub-sub ---------------------------- *)
HasNonEmptyError(data) ==
    "error" \in DOMAIN data /\ data["error"] # JsonNull /\ Len(data["error"]) >= 1

(* This step starts a cycle over all configured users.                     *)
CycleStarts ==
    /\ cycles' = cycles + 1
    /\ pc' = "loop" /\ idx' = 1
    /\ users' = ConfiguredUsers /\ repo' = "store"

(* C27: a pub-sub event starts a cycle over all configured users exactly   *)
(* when its error is ERR_BADAUTH, nothing else starts a cycle, and an      *)
(* event with a non-empty error is never handled as a reward redemption.   *)
C27_CycleIffBadAuth ==
    [][/\ \A data \in PubSubEvents :
            event_raw_pubsub(data) =>
                /\ CycleStarts <=> ("error" \in DOMAIN data /\ data["error"] = "ERR_BADAUTH")
                /\ ~CycleStarts => UNCHANGED <<cycles, pc, validateCalls, exchangeCalls>>
                /\ HasNonEmptyError(data) => handled' # "redeemed"
       /\ cycles' # cycles =>
            \E data \in PubSubEvents :
                event_raw_pubsub(data) /\ data["error"] = "ERR_BADAUTH"]_vars

(* The second ERR_BADAUTH event of a behaviour has run its cycle over both *)
(* users to the end.                                                       *)
C27_Witness ==
    /\ handled = "cycle" /\ cycles = 2
    /\ pc = "idle" /\ result = "returned"
    /\ outcome[1] \in {"valid", "refreshed"} /\ outcome[2] = "skipped"

(* ------------------------- Claims: cooldowns ---------------------------- *)
AnalogueReplies == {"analogue_error", "analogue_nothing", "analogue_stock"}
WotdReplies == {"wotd_error", "wotd", "wotd_with_examples"}

(* One timer of channel c over a step that handles a chat message: a reply *)
(* of its kinds is sent in c exactly when the timer is set to the time of  *)
(* the step, which then lies more than cooldown after the old value;       *)
(* inside the cooldown nothing of its kinds is sent in c and the timer     *)
(* stays.                                                                  *)
Governed(c, last, lastAfter, cooldown, kinds) ==
    /\ (sent'.channel = c /\ sent'.text \in kinds) <=> lastAfter # last
    /\ lastAfter # last =>
            /\ lastAfter = Time(clock)
            /\ last.set => lastAfter.at - last.at > cooldown
    /\ (last.set /\ clock - last.at <= cooldown) =>
            ~(sent'.channel = c /\ sent'.text \in kinds) /\ lastAfter = last

(* C28: replies of one timer (the echo, 20 minutes per handle; the wave,   *)
(* 30 minutes; !analogue, 1 minute per handle; word of the day, 30 seconds *)
(* per handle) lie strictly more than the cooldown apart, the stored time  *)
(* only moves forward, and a trigger inside the cooldown sends nothing and *)
(* leaves the timer as it is.                                              *)
C28_CooldownSafety ==
    [][/\ (chatEvents' # chatEvents) =>
            /\ \A c \in Channels :
                    /\ Governed(c, lastDeerForceMessageTimes[c],
                                lastDeerForceMessageTimes'[c], 20 * 60, {"deer"})
                    /\ Governed(c, lastAnalogueStockMessageTimes[c],
                                lastAnalogueStockMessageTimes'[c], 60, AnalogueReplies)
                    /\ Governed(c, lastWotdMessageTimes[c],
                                lastWotdMessageTimes'[c], 30, WotdReplies)
            /\ Governed(sent'.channel, Time(lastCynanMessageTime),
                        Time(lastCynanMessageTime'), 30 * 60, {"wave"})
       /\ (chatEvents' = chatEvents) =>
            UNCHANGED <<sent, lastDeerForceMessageTimes, lastCynanMessageTime,
                        lastAnalogueStockMessageTimes, lastWotdMessageTimes>>]_vars

(* The echo was sent in channel A at time 0; exactly 20 minutes later the  *)
(* same trigger in A was ignored.                                          *)
C28_Witness ==
    /\ sent = [channel |-> "A", text |-> "deer_cooldown"]
    /\ clock = 20 * 60 /\ chatEvents = 2
    /\ lastDeerForceMessageTimes["A"] = Time(0)
    /\ ~lastAnalogueStockMessageTimes["A"].set /\ ~lastWotdMessageTimes["A"].set

(* C29: the word-of-the-day timer is one per channel for the three         *)
(* commands and is set before the fetch: an answer in a channel, the error *)
(* message after a failed fetch included, sets that channel's timer to the *)
(* time of the answer; for the next 30 seconds none of the three commands  *)
(* is answered in that channel and the timer stays; a command is ignored   *)
(* only on account of its own channel's timer, and the timers of the other *)
(* channels are left alone.                                                *)
C29_WotdSharedTimer ==
    [][(chatEvents' # chatEvents) =>
        /\ sent'.text \in WotdReplies =>
                lastWotdMessageTimes'[sent'.channel] = Time(clock)
        /\ \A c \in Channels :
                (lastWotdMessageTimes[c].set /\ clock - lastWotdMessageTimes[c].at <= 30) =>
                    /\ ~(sent'.channel = c /\ sent'.text \in WotdReplies)
                    /\ lastWotdMessageTimes'[c] = lastWotdMessageTimes[c]
        /\ sent'.text = "wotd_cooldown" =>
                /\ lastWotdMessageTimes[sent'.channel].set
                /\ clock - lastWotdMessageTimes[sent'.channel].at <= 30
        /\ \A c \in Channels \ {sent'.channel} :
                lastWotdMessageTimes'[c] = lastWotdMessageTimes[c]]_vars

(* A word-of-the-day command was answered in channel A at time 0; 30       *)
(* seconds later one is answered in channel B, with the error message of a *)
(* failed fetch, and B's timer is set.                                     *)
C29_Witness ==
    /\ sent = [channel |-> "B", text |-> "wotd_error"]
    /\ clock = 30 /\ chatEvents = 2
    /\ lastWotdMessageTimes["A"] = Time(0)
    /\ lastWotdMessageTimes["B"] = Time(30)

====
